---------------------------- MODULE Spec2Model ----------------------------
(***************************************************************************)
(* Model of the content script of the Text Level Rewriter extension        *)
(* (src/content.js): the message listener, the rewrite / summarize / reset *)
(* pipelines, the page snapshot and the deferred fade-timer callbacks.     *)
(*                                                                         *)
(* Strings are sequences of one-character strings.  The document is a heap *)
(* of element objects; an element's children are text nodes or references  *)
(* to other elements.  Markup (innerHTML) is a token sequence: the         *)
(* characters of the text, and "<", kind, ">" ... "<", "/", kind, ">" for   *)
(* an element, where kind stands for the tag name with its attributes.     *)
(* The page texts never contain "<", ">" or "&", so escaping leaves them   *)
(* as they are.                                                            *)
(***************************************************************************)
EXTENDS Integers, Sequences, FiniteSets, TLC

\* ------------------------------------------------------------------------
\* Bounds of the model
\* ------------------------------------------------------------------------

\* number of commands the popup sends during one page load
MaxCommands == 3

\* number of commands the popup sends in the runs checked for progress
MaxFairCommands == 2

\* number of commands the popup sends in the runs over the wide range of pages
MaxWideCommands == 2

\* largest number of sentences of a page of sentences
MaxSentences == 9

\* ------------------------------------------------------------------------
\* Program constants
\* ------------------------------------------------------------------------

\* storeOriginalTexts: element.textContent.trim().length > 10
CaptureMinLen == 10
\* replacePageContentWithRewrittenText: item.originalText.length > 20
ApplyMinLen == 20
\* processTextChunks: chunk.length > 50
ChunkMinLen == 50
\* processTextChunks: (i + 1) % 4 === 0
SentencesPerChunk == 4
\* extractMainContent: getTextContentLength(element) > 100, mainContent.length < 100
MainMinLen == 100
\* cleanTextContent / createSummary: substring(0, 12000)
MaxTextLen == 12000

\* ------------------------------------------------------------------------
\* Strings
\* ------------------------------------------------------------------------

\* the characters the regular expression class \s matches
IsSpace(ch) == ch \in {" ", "\n", "\t"}

\* the characters of the class [.!?]

Rep(ch, n) == [i \in 1..n |-> ch]

\* the least element of a set of indices, or none when it is empty
FirstIndex(S, none) == IF S = {} THEN none ELSE CHOOSE x \in S : \A y \in S : x <= y

\* the greatest element of a set of indices, or none when it is empty
LastIndex(S, none) == IF S = {} THEN none ELSE CHOOSE x \in S : \A y \in S : x >= y

\* first index >= i of s that holds no whitespace (Len(s) + 1 when none)
SkipSpaces(s, i) == FirstIndex({j \in i..Len(s) : ~IsSpace(s[j])}, Len(s) + 1)

\* last index <= i of s that holds no whitespace (0 when none)
SkipSpacesBack(s, i) == LastIndex({j \in 1..i : ~IsSpace(s[j])}, 0)

\* String.prototype.trim
Trim(s) ==
    LET a == SkipSpaces(s, 1)
        b == SkipSpacesBack(s, Len(s))
    IN  IF a > b THEN <<>> ELSE SubSeq(s, a, b)

\* s.replace(/\s+/g, ' ')
CollapseSpaces(s) ==
    LET keep == SelectSeq([i \in 1..Len(s) |-> i],
                          LAMBDA i : ~IsSpace(s[i]) \/ i = 1 \/ ~IsSpace(s[i - 1]))
    IN  [k \in 1..Len(keep) |-> IF IsSpace(s[keep[k]]) THEN " " ELSE s[keep[k]]]

\* s.replace(/\n+/g, '\n')
CollapseNewlines(s) ==
    LET keep == SelectSeq([i \in 1..Len(s) |-> i],
                          LAMBDA i : s[i] # "\n" \/ i = 1 \/ s[i - 1] # "\n")
    IN  [k \in 1..Len(keep) |-> s[keep[k]]]

\* s.substring(0, n)
Substring0(s, n) == IF Len(s) <= n THEN s ELSE SubSeq(s, 1, n)

\* first index >= i of s whose character is not in the class cls
ScanWhile(s, i, cls) == FirstIndex({j \in i..Len(s) : s[j] \notin cls}, Len(s) + 1)

\* first index >= i of s whose character is in the class cls
ScanUntil(s, i, cls) == FirstIndex({j \in i..Len(s) : s[j] \in cls}, Len(s) + 1)

RECURSIVE SplitOnRuns(_, _, _)
\* s.split(/[cls]+/) from index i on: the pieces between maximal runs of cls
SplitOnRuns(s, i, cls) ==
    LET j == ScanUntil(s, i, cls)
    IN  IF j > Len(s)
        THEN << SubSeq(s, i, Len(s)) >>
        ELSE << SubSeq(s, i, j - 1) >> \o SplitOnRuns(s, ScanWhile(s, j, cls), cls)

\* first index >= i of s at which two newlines follow each other
NextBlankLine(s, i) ==
    FirstIndex({j \in i..(Len(s) - 1) : s[j] = "\n" /\ s[j + 1] = "\n"}, Len(s) + 1)

RECURSIVE SplitParagraphs(_, _)
\* s.split(/\n\n+/) from index i on
SplitParagraphs(s, i) ==
    LET j == NextBlankLine(s, i)
    IN  IF j > Len(s)
        THEN << SubSeq(s, i, Len(s)) >>
        ELSE << SubSeq(s, i, j - 1) >> \o SplitParagraphs(s, ScanWhile(s, j, {"\n"}))

RECURSIVE JoinWith(_, _)
\* parts.join(sep)
JoinWith(parts, sep) ==
    IF parts = <<>> THEN <<>>
    ELSE IF Len(parts) = 1 THEN parts[1]
    ELSE parts[1] \o sep \o JoinWith(Tail(parts), sep)

\* ------------------------------------------------------------------------
\* Elements and selectors
\* ------------------------------------------------------------------------

\* An element kind stands for a tag name together with its attributes.
KindInfo ==
    [ body    |-> [tag |-> "body",    cls |-> "",        role |-> ""],
      nav     |-> [tag |-> "nav",     cls |-> "",        role |-> ""],
      footer  |-> [tag |-> "footer",  cls |-> "",        role |-> ""],
      main    |-> [tag |-> "main",    cls |-> "",        role |-> ""],
      article |-> [tag |-> "article", cls |-> "",        role |-> ""],
      content |-> [tag |-> "div",     cls |-> "content", role |-> ""],
      sidebar |-> [tag |-> "aside",   cls |-> "sidebar", role |-> ""],
      div     |-> [tag |-> "div",     cls |-> "",        role |-> ""],
      h1      |-> [tag |-> "h1",      cls |-> "",        role |-> ""],
      p       |-> [tag |-> "p",       cls |-> "",        role |-> ""],
      li      |-> [tag |-> "li",      cls |-> "",        role |-> ""],
      span    |-> [tag |-> "span",    cls |-> "",        role |-> ""],
      b       |-> [tag |-> "b",       cls |-> "",        role |-> ""],
      a       |-> [tag |-> "a",       cls |-> "",        role |-> ""] ]

Kinds == DOMAIN KindInfo

\* the class names of KindInfo that contain the substring "text" / "content"
ClassesContainingText == {"text"}
ClassesContainingContent == {"content", "main-content", "post-content",
                             "article-content", "story-content", "entry-content"}

\* the selector list of storeOriginalTexts
IsTextElement(kind) ==
    LET k == KindInfo[kind]
    IN  \/ k.tag \in {"h1", "h2", "h3", "h4", "h5", "h6", "p", "span", "div",
                      "article", "section", "li", "td", "th", "figcaption", "main"}
        \/ k.cls \in ClassesContainingText
        \/ k.cls \in ClassesContainingContent
        \/ k.cls \in {"content", "text", "article", "post", "main", "body", "story"}

\* contentSelectors of extractMainContent, in priority order
ContentSelectors ==
    << "main", "article", "[role=main]", ".content", ".main-content",
       ".post-content", ".article-content", ".story-content", ".entry-content" >>

\* element.matches(selector) for the selectors of ContentSelectors
MatchesSelector(kind, selector) ==
    LET k == KindInfo[kind]
    IN  CASE selector = "main"             -> k.tag = "main"
          [] selector = "article"          -> k.tag = "article"
          [] selector = "[role=main]"      -> k.role = "main"
          [] selector = ".content"         -> k.cls = "content"
          [] selector = ".main-content"    -> k.cls = "main-content"
          [] selector = ".post-content"    -> k.cls = "post-content"
          [] selector = ".article-content" -> k.cls = "article-content"
          [] selector = ".story-content"   -> k.cls = "story-content"
          [] selector = ".entry-content"   -> k.cls = "entry-content"
          [] OTHER                         -> FALSE

\* navSelectors of extractMainContent
IsNavElement(kind) ==
    LET k == KindInfo[kind]
    IN  \/ k.tag \in {"nav", "header", "footer"}
        \/ k.cls \in {"nav", "header", "footer", "menu", "sidebar"}

\* ------------------------------------------------------------------------
\* The document
\* ------------------------------------------------------------------------

\* document.body
Body == 1

TextNode(s) == [k |-> "t", v |-> s, id |-> 0]
ElemNode(e) == [k |-> "e", v |-> <<>>, id |-> e]
Element(kind, kids) == [kind |-> kind, kids |-> kids]

RECURSIVE TextOfKids(_, _)
\* the text of a list of child nodes, descendants included
TextOfKids(h, kids) ==
    IF kids = <<>> THEN <<>>
    ELSE LET n == Head(kids)
         IN  (IF n.k = "t" THEN n.v ELSE TextOfKids(h, h[n.id].kids))
             \o TextOfKids(h, Tail(kids))

\* element.textContent
TextContent(h, e) == TextOfKids(h, h[e].kids)

RECURSIVE ElementsOfKids(_, _)
\* the elements below a list of child nodes, in document order
ElementsOfKids(h, kids) ==
    IF kids = <<>> THEN <<>>
    ELSE LET n == Head(kids)
         IN  (IF n.k = "t" THEN <<>>
              ELSE <<n.id>> \o ElementsOfKids(h, h[n.id].kids))
             \o ElementsOfKids(h, Tail(kids))

\* the elements of the live document, in document order
DocumentElements(h) == <<Body>> \o ElementsOfKids(h, h[Body].kids)

RECURSIVE Serialize(_, _)
\* the markup of a list of child nodes
Serialize(h, kids) ==
    IF kids = <<>> THEN <<>>
    ELSE LET n == Head(kids)
         IN  (IF n.k = "t" THEN n.v
              ELSE << "<", h[n.id].kind, ">" >> \o Serialize(h, h[n.id].kids)
                   \o << "<", "/", h[n.id].kind, ">" >>)
             \o Serialize(h, Tail(kids))

\* element.innerHTML (read)
InnerHTML(h, e) == Serialize(h, h[e].kids)

RECURSIVE ParseNodes(_, _, _)
\* the HTML parser: the nodes of markup from token i up to the closing tag of
\* the enclosing element (or the end), with every element newly created
ParseNodes(markup, i, h) ==
    IF i > Len(markup) THEN [kids |-> <<>>, i |-> i, h |-> h]
    ELSE IF markup[i] = "<" /\ markup[i + 1] = "/" THEN [kids |-> <<>>, i |-> i, h |-> h]
    ELSE IF markup[i] = "<" THEN
        LET e     == Len(h) + 1
            inner == ParseNodes(markup, i + 3, Append(h, Element(markup[i + 1], <<>>)))
            rest  == ParseNodes(markup, inner.i + 4,
                                [inner.h EXCEPT ![e].kids = inner.kids])
        IN  [kids |-> <<ElemNode(e)>> \o rest.kids, i |-> rest.i, h |-> rest.h]
    ELSE
        LET j    == ScanUntil(markup, i, {"<"})
            rest == ParseNodes(markup, j, h)
        IN  [kids |-> <<TextNode(SubSeq(markup, i, j - 1))>> \o rest.kids,
             i |-> rest.i, h |-> rest.h]

\* element.innerHTML = markup
SetInnerHTML(h, e, markup) ==
    LET r == ParseNodes(markup, 1, h)
    IN  [r.h EXCEPT ![e].kids = r.kids]

\* element.textContent = text
SetTextContent(h, e, text) ==
    [h EXCEPT ![e].kids = IF text = <<>> THEN <<>> ELSE <<TextNode(text)>>]

RECURSIVE TextNodesOfKids(_, _, _, _)
\* the text nodes below child p.. of element e, as <<parent, position>>
TextNodesOfKids(h, e, p, kids) ==
    IF p > Len(kids) THEN <<>>
    ELSE (IF kids[p].k = "t" THEN << <<e, p>> >>
          ELSE TextNodesOfKids(h, kids[p].id, 1, h[kids[p].id].kids))
         \o TextNodesOfKids(h, e, p + 1, kids)

\* getTextNodes(element)
GetTextNodes(h, e) == TextNodesOfKids(h, e, 1, h[e].kids)

\* replaceTextNodes(element, newText)
ReplaceTextNodes(h, e, newText) ==
    LET textNodes == GetTextNodes(h, e)
        parents   == {textNodes[i][1] : i \in 1..Len(textNodes)}
        KidsOf(x) ==
            LET keep == SelectSeq([p \in 1..Len(h[x].kids) |-> p],
                                  LAMBDA p : h[x].kids[p].k = "e" \/ <<x, p>> = textNodes[1])
            IN  [q \in 1..Len(keep) |->
                    IF <<x, keep[q]>> = textNodes[1]
                    THEN TextNode(newText) ELSE h[x].kids[keep[q]]]
    IN  IF Len(textNodes) > 0
        THEN [x \in DOMAIN h |-> IF x \in parents THEN [h[x] EXCEPT !.kids = KidsOf(x)]
                                 ELSE h[x]]
        ELSE SetTextContent(h, e, newText)

\* hasComplexHTML(html)
HasComplexHTML(html) ==
    /\ \E i \in 1..Len(html) : html[i] = "<"
    /\ \E i \in 1..Len(html) : html[i] = ">"
    /\ ~(Len(html) > 0 /\ html[1] = "<")

\* getTextContentLength(element)
GetTextContentLength(h, e) == Len(Trim(CollapseSpaces(TextContent(h, e))))

\* cleanTextContent(text)
CleanTextContent(text) ==
    Substring0(Trim(CollapseNewlines(CollapseSpaces(text))), MaxTextLen)

\* ------------------------------------------------------------------------
\* Snapshot, extraction, chunking (pure parts of the pipeline)
\* ------------------------------------------------------------------------

\* storeOriginalTexts: element.textContent && element.textContent.trim().length > 10
HasTextToCapture(text) == Len(Trim(text)) > CaptureMinLen

\* storeOriginalTexts(): the entries of the Map, in insertion order
StoreOriginalTexts(h) ==
    LET textElements == SelectSeq(DocumentElements(h), LAMBDA e : IsTextElement(h[e].kind))
        captured     == SelectSeq([i \in 1..Len(textElements) |-> i],
                            LAMBDA i : HasTextToCapture(TextContent(h, textElements[i])))
    IN  [n \in 1..Len(captured) |->
            [index        |-> captured[n] - 1,
             element      |-> textElements[captured[n]],
             originalText |-> TextContent(h, textElements[captured[n]]),
             originalHTML |-> InnerHTML(h, textElements[captured[n]])]]

\* document.querySelector(selector): 0 when nothing matches
QuerySelector(h, selector) ==
    LET found == SelectSeq(DocumentElements(h), LAMBDA e : MatchesSelector(h[e].kind, selector))
    IN  IF found = <<>> THEN 0 ELSE found[1]

RECURSIVE FindMainContent_FirstMatch(_, _)
\* the selector loop without the length test: the first selector that
\* matches an element is taken
FindMainContent_FirstMatch(h, n) ==
    IF n > Len(ContentSelectors) THEN <<>>
    ELSE LET element == QuerySelector(h, ContentSelectors[n])
         IN  IF element # 0
             THEN TextContent(h, element)
             ELSE FindMainContent_FirstMatch(h, n + 1)

RECURSIVE FindMainContent(_, _)
\* the selector loop of extractMainContent, from selector number n on
FindMainContent(h, n) ==
    IF n > Len(ContentSelectors) THEN <<>>
    ELSE LET element == QuerySelector(h, ContentSelectors[n])
         IN  IF element # 0 /\ GetTextContentLength(h, element) > MainMinLen
             THEN TextContent(h, element)
             ELSE FindMainContent(h, n + 1)

RECURSIVE TextWithoutNav(_, _)
\* the text of a list of child nodes once the navigation elements are removed
TextWithoutNav(h, kids) ==
    IF kids = <<>> THEN <<>>
    ELSE LET n == Head(kids)
         IN  (IF n.k = "t" THEN n.v
              ELSE IF IsNavElement(h[n.id].kind) THEN <<>>
              ELSE TextWithoutNav(h, h[n.id].kids))
             \o TextWithoutNav(h, Tail(kids))

\* extractMainContent()
ExtractMainContent(h) ==
    LET found       == FindMainContent(h, 1)
        mainContent == IF found = <<>> \/ Len(found) < MainMinLen
                       THEN TextWithoutNav(h, h[Body].kids)
                       ELSE found
    IN  CleanTextContent(mainContent)

\* text.split(/[.!?]+/).filter(s => s.trim().length > 0)
SplitSentences(text) ==
    SelectSeq(SplitOnRuns(text, 1, {".", "!", "?"}), LAMBDA s : Len(Trim(s)) > 0)

RECURSIVE GroupSentences_NoTail(_, _, _)
\* the grouping loop without the test for the last sentence
GroupSentences_NoTail(sentences, i, currentChunk) ==
    IF i > Len(sentences) THEN <<>>
    ELSE LET chunk == currentChunk \o sentences[i] \o <<".", " ">>
         IN  IF i % SentencesPerChunk = 0
             THEN <<Trim(chunk)>> \o GroupSentences_NoTail(sentences, i + 1, <<>>)
             ELSE GroupSentences_NoTail(sentences, i + 1, chunk)

RECURSIVE GroupSentences(_, _, _)
\* the grouping loop of processTextChunks, from sentence i on
GroupSentences(sentences, i, currentChunk) ==
    IF i > Len(sentences) THEN <<>>
    ELSE LET chunk == currentChunk \o sentences[i] \o <<".", " ">>
         IN  IF i % SentencesPerChunk = 0 \/ i = Len(sentences)
             THEN <<Trim(chunk)>> \o GroupSentences(sentences, i + 1, <<>>)
             ELSE GroupSentences(sentences, i + 1, chunk)

\* the chunks of processTextChunks
Chunks(text) == GroupSentences(SplitSentences(text), 1, <<>>)

\* the test of processTextChunks with the threshold of the apply step
IsSubstantial_ApplyThreshold(chunk) == Len(chunk) > ApplyMinLen

\* processTextChunks: whether a chunk is sent to the external call
IsSubstantial(chunk) == Len(chunk) > ChunkMinLen

\* ------------------------------------------------------------------------
\* Pages and answers of the external service (inputs of the model)
\* ------------------------------------------------------------------------

RECURSIVE Words(_, _, _)
\* k words of w letters ch, separated by single spaces
Words(ch, w, k) ==
    IF k = 0 THEN <<>>
    ELSE IF k = 1 THEN Rep(ch, w)
    ELSE Rep(ch, w) \o <<" ">> \o Words(ch, w, k - 1)

\* four sentences of 14 characters, each followed by a space
FourSentences == Words("a", 4, 3) \o <<".", " ">> \o Words("b", 4, 3) \o <<"!", " ">>
                 \o Words("c", 4, 3) \o <<"?", " ">> \o Words("d", 4, 3) \o <<".", " ">>

\* A page with navigation and a <main>: its text gives two substantial chunks.
\*   body > nav > li ; body > main > h1, p, p (with inline <b>), p
PageArticle ==
    << Element("body", <<ElemNode(2), ElemNode(4)>>),
       Element("nav",  <<ElemNode(3)>>),
       Element("li",   <<TextNode(Words("n", 5, 3))>>),
       Element("main", <<ElemNode(5), ElemNode(6), ElemNode(7), ElemNode(9)>>),
       Element("h1",   <<TextNode(Words("h", 7, 2))>>),
       Element("p",    <<TextNode(FourSentences)>>),
       Element("p",    <<TextNode(Words("e", 5, 2) \o <<" ">>), ElemNode(8),
                         TextNode(<<" ">> \o Words("g", 5, 6) \o <<".">>)>>),
       Element("b",    <<TextNode(Words("f", 5, 2))>>),
       Element("p",    <<TextNode(<<" ">> \o Words("i", 3, 3) \o <<".">>)>>) >>

\* A page without a main container: one substantial chunk and one short chunk.
\*   body > div > p, p
PagePlain ==
    << Element("body", <<ElemNode(2)>>),
       Element("div",  <<ElemNode(3), ElemNode(4)>>),
       Element("p",    <<TextNode(FourSentences)>>),
       Element("p",    <<TextNode(Words("j", 3, 6) \o <<".">>)>>) >>

\* A page whose only text is navigation: extraction yields the empty string.
\*   body > nav > li, text of spaces
PageNavOnly ==
    << Element("body", <<ElemNode(2), TextNode(<<" ", "\n", " ">>)>>),
       Element("nav",  <<ElemNode(3)>>),
       Element("li",   <<TextNode(Words("n", 5, 4))>>) >>

Pages == {PageArticle, PagePlain, PageNavOnly}

\* ---- the wide range of pages ----

\* the letter the words of sentence i are made of
Letters == <<"a", "b", "c", "d", "e", "f", "g", "h", "i", "j", "k", "l">>

\* how sentence i ends: one terminator, or a run of two
Terminator(i) == IF i % 3 = 1 THEN <<".">> ELSE IF i % 3 = 2 THEN <<"!", "?">> ELSE <<"?">>

RECURSIVE SentenceText(_)
\* a text of n sentences of 14 characters, each followed by a space
SentenceText(n) ==
    IF n = 0 THEN <<>>
    ELSE SentenceText(n - 1) \o Words(Letters[n], 4, 3) \o Terminator(n) \o <<" ">>

\* A page whose text is n sentences.   body > p
PageOfSentences(n) ==
    << Element("body", <<ElemNode(2)>>),
       Element("p",    <<TextNode(SentenceText(n))>>) >>

\* the text of a content container:
\*   short - 30 characters
\*   edge  - 100 characters once whitespace is normalised, 103 as they stand
\*   long  - 101 characters
ContainerText(ch, level) ==
    CASE level = "short" -> Words(ch, 5, 5) \o <<".">>
      [] level = "edge"  -> <<"\n", " ", " ">> \o Words(ch, 9, 10) \o <<".">>
      [] level = "long"  -> Words(ch, 9, 10) \o <<ch, ".">>
      [] OTHER           -> <<>>

\* A page with navigation, up to three content containers and a loose
\* paragraph; the containers stand in the reverse of the selector priority.
\*   body > nav > li ; body > div.content > p ; body > article > p ;
\*   body > main > p ; body > p
PageOfContainers(mainLevel, articleLevel, contentLevel) ==
    LET Present(level, e) == IF level = "absent" THEN <<>> ELSE <<ElemNode(e)>>
    IN  << Element("body",    <<ElemNode(2)>> \o Present(contentLevel, 4)
                                \o Present(articleLevel, 6) \o Present(mainLevel, 8)
                                \o <<ElemNode(10)>>),
           Element("nav",     <<ElemNode(3)>>),
           Element("li",      <<TextNode(Words("n", 5, 3))>>),
           Element("content", <<ElemNode(5)>>),
           Element("p",       <<TextNode(ContainerText("c", contentLevel))>>),
           Element("article", <<ElemNode(7)>>),
           Element("p",       <<TextNode(ContainerText("a", articleLevel))>>),
           Element("main",    <<ElemNode(9)>>),
           Element("p",       <<TextNode(ContainerText("m", mainLevel))>>),
           Element("p",       <<TextNode(Words("q", 6, 4) \o <<".">>)>>) >>

\* A paragraph with inline markup whose inline element is long enough to be
\* patched itself.   body > p > text, span, text
PageNested ==
    << Element("body", <<ElemNode(2)>>),
       Element("p",    <<TextNode(Words("r", 5, 4) \o <<" ">>), ElemNode(3),
                         TextNode(<<" ">> \o Words("t", 4, 2) \o <<".">>)>>),
       Element("span", <<TextNode(Words("s", 5, 5) \o <<".">>)>>) >>

\* A paragraph with inline markup whose inline element holds 12 characters.
\*   body > p > text, span, text
PageNestedShort ==
    << Element("body", <<ElemNode(2)>>),
       Element("p",    <<TextNode(Words("u", 5, 5) \o <<" ">>), ElemNode(3),
                         TextNode(<<" ">> \o Words("w", 5, 4) \o <<".">>)>>),
       Element("span", <<TextNode(Words("v", 5, 2) \o <<".">>)>>) >>

\* Paragraphs around the two length thresholds, as (trimmed, untrimmed)
\* lengths: (10, 11), (11, 11), (19, 20), (16, 21), (36, 36).   body > p * 5
PageThresholds ==
    << Element("body", <<ElemNode(2), ElemNode(3), ElemNode(4), ElemNode(5), ElemNode(6)>>),
       Element("p",    <<TextNode(Rep("k", 10) \o <<" ">>)>>),
       Element("p",    <<TextNode(Rep("m", 11))>>),
       Element("p",    <<TextNode(<<" ">> \o Rep("o", 19))>>),
       Element("p",    <<TextNode(<<" ">> \o Rep("x", 16) \o <<" ", " ", " ", " ">>)>>),
       Element("p",    <<TextNode(Words("z", 5, 6) \o <<".">>)>>) >>

WidePages ==
    {PageOfSentences(n) : n \in 1..MaxSentences}
    \cup {PageOfContainers(m, a, c) : m \in {"absent", "edge", "long"},
                                      a \in {"absent", "short", "long"},
                                      c \in {"absent", "long"}}
    \cup {PageNested, PageNestedShort, PageThresholds, PageArticle, PagePlain}

\* contents the model may return (data.choices[0].message.content)
OutBlank == <<" ", "\n">>
OutTwo   == <<" ">> \o Words("y", 6, 4) \o <<".", "\n", "\n">> \o Words("z", 6, 4)
            \o <<".", "\n">>

\* what one call of fetch can end in:
\*   reject    - fetch rejects (network failure)
\*   status    - a response whose ok is false
\*   malformed - an ok response whose body has no choices[0].message.content
\*   ok        - an ok response carrying content
ApiOutcomes ==
    { [kind |-> "reject", content |-> <<>>],
      [kind |-> "status", content |-> <<>>],
      [kind |-> "malformed", content |-> <<>>] }
    \cup { [kind |-> "ok", content |-> c] : c \in {OutBlank, OutTwo} }

\* error.message of what the try block of a client function throws
ApiErrorMessage(outcome) ==
    CASE outcome.kind = "reject"    -> "Failed to fetch"
      [] outcome.kind = "status"    -> "API Error: Unknown error"
      [] outcome.kind = "malformed" -> "Cannot read properties of undefined"
      [] OTHER                      -> "OpenAI returned empty response"

\* ------------------------------------------------------------------------
\* The clients and the DOM patcher (pure parts)
\* ------------------------------------------------------------------------

\* rewriteTextWithOpenAI without its check for an empty answer
RewriteTextWithOpenAI_NoEmptyCheck(text, outcome) ==
    IF outcome.kind = "ok" THEN Trim(outcome.content) ELSE text

\* rewriteTextWithOpenAI(text, ...): what it returns when fetch ends in outcome
RewriteTextWithOpenAI(text, outcome) ==
    IF outcome.kind = "ok" /\ Trim(outcome.content) # <<>>
    THEN Trim(outcome.content)
    ELSE text

\* createSummary with the catch block of rewriteTextWithOpenAI: a failure is
\* swallowed and an empty summary returned
CreateSummary_Swallow(outcome) ==
    [ok |-> TRUE, summary |-> Trim(outcome.content), error |-> <<>>]

\* createSummary(...): the summary it returns, or the error it throws
CreateSummary(outcome) ==
    IF outcome.kind = "ok"
    THEN [ok |-> TRUE, summary |-> Trim(outcome.content), error |-> <<>>]
    ELSE [ok |-> FALSE, summary |-> <<>>,
          error |-> <<"Failed to create summary: ", ApiErrorMessage(outcome)>>]

RECURSIVE PushShortChunks(_, _)
\* the loop of processTextChunks up to the next await: chunks that are not
\* substantial are pushed as they are
PushShortChunks(chunks, processedChunks) ==
    LET i == Len(processedChunks) + 1
    IN  IF i > Len(chunks) \/ IsSubstantial(chunks[i])
        THEN processedChunks
        ELSE PushShortChunks(chunks, Append(processedChunks, chunks[i]))

\* processedChunks.unshift(processed) in place of push
PushProcessed_Unshift(processedChunks, processed) == <<processed>> \o processedChunks

\* processedChunks.push(processed)
PushProcessed(processedChunks, processed) == Append(processedChunks, processed)

\* processedChunks.join(' ')
JoinChunks(processedChunks) == JoinWith(processedChunks, <<" ">>)

\* the apply step with the threshold of the capture
IsLongEnoughToPatch_CaptureThreshold(item) == Len(item.originalText) > CaptureMinLen

\* the callback of replacePageContentWithRewrittenText: item.originalText.length > 20
IsLongEnoughToPatch(item) == Len(item.originalText) > ApplyMinLen

RECURSIVE ApplyParagraphs_NoAdvance(_, _, _, _, _)
\* the forEach without currentParagraph++
ApplyParagraphs_NoAdvance(h, entries, n, paragraphs, currentParagraph) ==
    IF n > Len(entries) THEN h
    ELSE LET item == entries[n]
         IN  IF currentParagraph < Len(paragraphs) /\ IsLongEnoughToPatch(item)
             THEN LET newText == paragraphs[currentParagraph + 1]
                      patched == IF HasComplexHTML(item.originalHTML)
                                 THEN ReplaceTextNodes(h, item.element, newText)
                                 ELSE SetTextContent(h, item.element, newText)
                  IN  ApplyParagraphs_NoAdvance(patched, entries, n + 1, paragraphs,
                                                currentParagraph)
             ELSE ApplyParagraphs_NoAdvance(h, entries, n + 1, paragraphs, currentParagraph)

RECURSIVE ApplyParagraphs(_, _, _, _, _)
\* the forEach of the setTimeout callback of replacePageContentWithRewrittenText,
\* from entry n on
ApplyParagraphs(h, entries, n, paragraphs, currentParagraph) ==
    IF n > Len(entries) THEN h
    ELSE LET item == entries[n]
         IN  IF currentParagraph < Len(paragraphs) /\ IsLongEnoughToPatch(item)
             THEN LET newText == IF paragraphs[currentParagraph + 1] # <<>>
                                 THEN paragraphs[currentParagraph + 1]
                                 ELSE paragraphs[Len(paragraphs)]
                      patched == IF HasComplexHTML(item.originalHTML)
                                 THEN ReplaceTextNodes(h, item.element, newText)
                                 ELSE SetTextContent(h, item.element, newText)
                  IN  ApplyParagraphs(patched, entries, n + 1, paragraphs, currentParagraph + 1)
             ELSE ApplyParagraphs(h, entries, n + 1, paragraphs, currentParagraph)

RECURSIVE RestoreOriginals(_, _, _)
\* the forEach of resetPageContent, from entry n on
RestoreOriginals(h, entries, n) ==
    IF n > Len(entries) THEN h
    ELSE RestoreOriginals(SetInnerHTML(h, entries[n].element, entries[n].originalHTML),
                          entries, n + 1)

\* downloadSummaryAsPDF: createElement('a'), appendChild(link), click,
\* removeChild(link); the link ends up detached
DownloadLink(h) ==
    LET link     == Len(h) + 1
        created  == Append(h, Element("a", <<>>))
        appended == [created EXCEPT ![Body].kids = Append(@, ElemNode(link))]
    IN  [appended EXCEPT ![Body].kids =
            SelectSeq(@, LAMBDA n : ~(n.k = "e" /\ n.id = link))]

\* ------------------------------------------------------------------------
\* State
\* ------------------------------------------------------------------------

VARIABLES
    page,           \* the element objects of the document as it was loaded
    heap,           \* the element objects; the live document hangs off Body
    bodyOpacity,    \* document.body.style.opacity
    originalTexts,  \* the snapshot Map, as its entries in insertion order
    isRewritten,    \* the session flag
    timers,         \* setTimeout callbacks not yet run, oldest first
    tasks,          \* per command: the locals of its async function while it runs
    issued,         \* number of commands received so far
    responded,      \* per command: how often sendResponse was called for it
    lastDone,       \* the command that finished last: its locals and its result
    lastDownload    \* the download triggered last

vars == << page, heap, bodyOpacity, originalTexts, isRewritten, timers, tasks, issued,
           responded, lastDone, lastDownload >>

Commands == 1..MaxCommands

\* error.message values; a message is a tuple of its parts
NoContentMessage == <<"No readable text content found on this page">>

\* the locals of a command's async function: pc is "idle" before the command is
\* received, "await" while a fetch is outstanding, "done" once it has returned;
\* requests counts the calls of fetch the function has made so far
IdleTask ==
    [action |-> "none", pc |-> "idle", textContent |-> <<>>, chunks |-> <<>>,
     processedChunks |-> <<>>, requests |-> 0]

DoneTask == [IdleTask EXCEPT !.pc = "done"]

NothingDone ==
    [cmd |-> 0, action |-> "none", result |-> [success |-> FALSE],
     chunks |-> <<>>, processedChunks |-> <<>>, rewrittenContent |-> <<>>]

NoDownload == [cmd |-> 0, summary |-> <<>>]

Init ==
    /\ page \in Pages
    /\ heap = page
    /\ bodyOpacity = "1"
    /\ originalTexts = <<>>
    /\ isRewritten = FALSE
    /\ timers = <<>>
    /\ tasks = [c \in Commands |-> IdleTask]
    /\ issued = 0
    /\ responded = [c \in Commands |-> 0]
    /\ lastDone = NothingDone
    /\ lastDownload = NoDownload

\* a listener that answers successful results only
Return_SuccessOnly(c, action, result, chunks, processedChunks, rewrittenContent) ==
    /\ tasks' = [tasks EXCEPT ![c] = DoneTask]
    /\ responded' = [responded EXCEPT ![c] = IF result.success THEN @ + 1 ELSE @]
    /\ lastDone' = [cmd |-> c, action |-> action, result |-> result,
                    chunks |-> chunks, processedChunks |-> processedChunks,
                    rewrittenContent |-> rewrittenContent]

\* the async function of command c returns result, and the listener's
\* .then(result => sendResponse(result)) runs
Return(c, action, result, chunks, processedChunks, rewrittenContent) ==
    /\ tasks' = [tasks EXCEPT ![c] = DoneTask]
    /\ responded' = [responded EXCEPT ![c] = @ + 1]
    /\ lastDone' = [cmd |-> c, action |-> action, result |-> result,
                    chunks |-> chunks, processedChunks |-> processedChunks,
                    rewrittenContent |-> rewrittenContent]

\* ------------------------------------------------------------------------
\* rewritePage
\* ------------------------------------------------------------------------

\* the request rewriteTextWithOpenAI has outstanding for an awaiting task
PendingChunk(t) == Len(t.processedChunks) + 1

\* rewritePageContent from the return of processTextChunks on:
\* replacePageContentWithRewrittenText up to its setTimeout, the flag, the result
CompleteRewrite(c, textContent, chunks, processedChunks) ==
    LET rewrittenContent == JoinChunks(processedChunks)
    IN  /\ bodyOpacity' = "0.8"
        /\ timers' = Append(timers, [kind |-> "replace",
                                     paragraphs |-> SplitParagraphs(rewrittenContent, 1)])
        /\ isRewritten' = TRUE
        /\ Return(c, "rewritePage",
                  [success |-> TRUE, originalLength |-> Len(textContent),
                   newLength |-> Len(rewrittenContent)],
                  chunks, processedChunks, rewrittenContent)

\* processTextChunks with a loop that calls again for a chunk whose call gave
\* back the chunk itself
ContinueRewrite_Retry(c, textContent, chunks, processedSoFar) ==
    LET i               == Len(processedSoFar)
        retry           == i > 0 /\ IsSubstantial(chunks[i]) /\ processedSoFar[i] = chunks[i]
        processedChunks == IF retry THEN SubSeq(processedSoFar, 1, i - 1)
                           ELSE PushShortChunks(chunks, processedSoFar)
    IN  IF Len(processedChunks) = Len(chunks)
        THEN CompleteRewrite(c, textContent, chunks, processedChunks)
        ELSE /\ tasks' = [tasks EXCEPT ![c] =
                            [action |-> "rewritePage", pc |-> "await",
                             textContent |-> textContent, chunks |-> chunks,
                             processedChunks |-> processedChunks,
                             requests |-> tasks[c].requests + 1]]
             /\ UNCHANGED << timers, bodyOpacity, isRewritten, responded, lastDone >>

\* processTextChunks from the current loop position up to the next await (the
\* fetch of rewriteTextWithOpenAI for the next substantial chunk), or to its
\* end and then on through rewritePageContent
ContinueRewrite(c, textContent, chunks, processedSoFar) ==
    LET processedChunks == PushShortChunks(chunks, processedSoFar)
    IN  IF Len(processedChunks) = Len(chunks)
        THEN CompleteRewrite(c, textContent, chunks, processedChunks)
        ELSE /\ tasks' = [tasks EXCEPT ![c] =
                            [action |-> "rewritePage", pc |-> "await",
                             textContent |-> textContent, chunks |-> chunks,
                             processedChunks |-> processedChunks,
                             requests |-> tasks[c].requests + 1]]
             /\ UNCHANGED << timers, bodyOpacity, isRewritten, responded, lastDone >>

\* rewritePageContent / summarizePageContent without the no-content check
NoReadableText_Unchecked(textContent) == FALSE

\* whether rewritePageContent / summarizePageContent throws the no-content error
NoReadableText(textContent) == Trim(textContent) = <<>>

\* rewritePageContent with storeOriginalTexts called on every run
SnapshotForRewrite_Always(h, entries, rewritten) == StoreOriginalTexts(h)

\* rewritePageContent: if (!isRewritten) storeOriginalTexts(); the entries of
\* the Map afterwards
SnapshotForRewrite(h, entries, rewritten) ==
    IF ~rewritten THEN StoreOriginalTexts(h) ELSE entries

\* the listener receives { action: 'rewritePage' }: rewritePageContent up to its
\* first await (or to its end when nothing is awaited)
RewritePage(c) ==
    /\ c = issued + 1
    /\ c \in Commands
    /\ issued' = c
    /\ originalTexts' = SnapshotForRewrite(heap, originalTexts, isRewritten)
    /\ LET textContent == ExtractMainContent(heap)
       IN  IF NoReadableText(textContent)
           THEN /\ Return(c, "rewritePage",
                          [success |-> FALSE, error |-> NoContentMessage],
                          <<>>, <<>>, <<>>)
                /\ UNCHANGED << timers, bodyOpacity, isRewritten >>
           ELSE ContinueRewrite(c, textContent, Chunks(textContent), <<>>)
    /\ UNCHANGED << page, heap, lastDownload >>

\* the fetch awaited by rewriteTextWithOpenAI for command c ends in outcome:
\* the chunk's result is pushed and the loop goes on
RewriteReply(c, outcome) ==
    /\ tasks[c].action = "rewritePage"
    /\ tasks[c].pc = "await"
    /\ UNCHANGED << page, heap, originalTexts, issued, lastDownload >>
    /\ LET t         == tasks[c]
           processed == RewriteTextWithOpenAI(t.chunks[PendingChunk(t)], outcome)
       IN  ContinueRewrite(c, t.textContent, t.chunks,
                           PushProcessed(t.processedChunks, processed))

\* the setTimeout callback at the head of the queue runs
TimerFires ==
    /\ timers # <<>>
    /\ timers' = Tail(timers)
    /\ bodyOpacity' = "1"
    /\ heap' = IF Head(timers).kind = "replace"
               THEN ApplyParagraphs(heap, originalTexts, 1, Head(timers).paragraphs, 0)
               ELSE heap
    /\ UNCHANGED << page, originalTexts, isRewritten, tasks, issued, responded, lastDone,
                    lastDownload >>

\* ------------------------------------------------------------------------
\* summarizePage
\* ------------------------------------------------------------------------

\* summarizePage with a summarizePageContent that begins like
\* rewritePageContent, with storeOriginalTexts()
SummarizePage_Captures(c) ==
    /\ c = issued + 1
    /\ c \in Commands
    /\ issued' = c
    /\ originalTexts' = StoreOriginalTexts(heap)
    /\ LET textContent == ExtractMainContent(heap)
       IN  IF NoReadableText(textContent)
           THEN Return(c, "summarizePage",
                       [success |-> FALSE, error |-> NoContentMessage],
                       <<>>, <<>>, <<>>)
           ELSE /\ tasks' = [tasks EXCEPT ![c] =
                                [IdleTask EXCEPT !.action = "summarizePage", !.pc = "await",
                                                 !.textContent = textContent,
                                                 !.requests = 1]]
                /\ UNCHANGED << responded, lastDone >>
    /\ UNCHANGED << page, heap, bodyOpacity, isRewritten, timers, lastDownload >>

\* the listener receives { action: 'summarizePage' }: summarizePageContent up
\* to the fetch of createSummary
SummarizePage(c) ==
    /\ c = issued + 1
    /\ c \in Commands
    /\ issued' = c
    /\ LET textContent == ExtractMainContent(heap)
       IN  IF NoReadableText(textContent)
           THEN Return(c, "summarizePage",
                       [success |-> FALSE, error |-> NoContentMessage],
                       <<>>, <<>>, <<>>)
           ELSE /\ tasks' = [tasks EXCEPT ![c] =
                                [IdleTask EXCEPT !.action = "summarizePage", !.pc = "await",
                                                 !.textContent = textContent,
                                                 !.requests = 1]]
                /\ UNCHANGED << responded, lastDone >>
    /\ UNCHANGED << page, heap, bodyOpacity, originalTexts, isRewritten, timers,
                    lastDownload >>

\* the fetch awaited by createSummary for command c ends in outcome: the rest
\* of summarizePageContent
SummaryReply(c, outcome) ==
    /\ tasks[c].action = "summarizePage"
    /\ tasks[c].pc = "await"
    /\ UNCHANGED << page, bodyOpacity, originalTexts, isRewritten, timers, issued >>
    /\ LET r == CreateSummary(outcome)
       IN  IF r.ok
           THEN /\ heap' = DownloadLink(heap)
                /\ lastDownload' = [cmd |-> c, summary |-> r.summary]
                /\ Return(c, "summarizePage",
                          [success |-> TRUE, summaryLength |-> Len(r.summary)],
                          <<>>, <<>>, <<>>)
           ELSE /\ Return(c, "summarizePage", [success |-> FALSE, error |-> r.error],
                          <<>>, <<>>, <<>>)
                /\ UNCHANGED << heap, lastDownload >>

\* ------------------------------------------------------------------------
\* resetPage
\* ------------------------------------------------------------------------

\* resetPage with a resetPageContent that lacks its isRewritten guard
ResetPage_Unguarded(c) ==
    /\ c = issued + 1
    /\ c \in Commands
    /\ issued' = c
    /\ heap' = RestoreOriginals(heap, originalTexts, 1)
    /\ isRewritten' = FALSE
    /\ bodyOpacity' = "0.8"
    /\ timers' = Append(timers, [kind |-> "fade", paragraphs |-> <<>>])
    /\ Return(c, "resetPage", [success |-> TRUE], <<>>, <<>>, <<>>)
    /\ UNCHANGED << page, originalTexts, lastDownload >>

\* the listener receives { action: 'resetPage' }: resetPageContent, then
\* sendResponse({ success: true })
ResetPage(c) ==
    /\ c = issued + 1
    /\ c \in Commands
    /\ issued' = c
    /\ IF ~isRewritten
       THEN UNCHANGED << heap, isRewritten, bodyOpacity, timers >>
       ELSE /\ heap' = RestoreOriginals(heap, originalTexts, 1)
            /\ isRewritten' = FALSE
            /\ bodyOpacity' = "0.8"
            /\ timers' = Append(timers, [kind |-> "fade", paragraphs |-> <<>>])
    /\ Return(c, "resetPage", [success |-> TRUE], <<>>, <<>>, <<>>)
    /\ UNCHANGED << page, originalTexts, lastDownload >>

\* ------------------------------------------------------------------------
\* Specification
\* ------------------------------------------------------------------------

Receive == \E c \in Commands : RewritePage(c) \/ SummarizePage(c) \/ ResetPage(c)

Reply == \E c \in Commands, outcome \in ApiOutcomes :
            RewriteReply(c, outcome) \/ SummaryReply(c, outcome)

Next == Receive \/ Reply \/ TimerFires

Spec == Init /\ [][Next]_vars

\* ---- the content script on the wide range of pages ----

WideInit ==
    /\ page \in WidePages
    /\ heap = page
    /\ bodyOpacity = "1"
    /\ originalTexts = <<>>
    /\ isRewritten = FALSE
    /\ timers = <<>>
    /\ tasks = [c \in Commands |-> IdleTask]
    /\ issued = 0
    /\ responded = [c \in Commands |-> 0]
    /\ lastDone = NothingDone
    /\ lastDownload = NoDownload

\* what a call ends in, in the runs over the wide range of pages: a failure,
\* or an answer of two paragraphs
WideOutcomes == {o \in ApiOutcomes : o.kind = "reject" \/ o.content = OutTwo}

\* the popup sends at most MaxWideCommands commands
WideReceive == issued < MaxWideCommands /\ Receive

WideReply == \E c \in Commands, outcome \in WideOutcomes :
                RewriteReply(c, outcome) \/ SummaryReply(c, outcome)

WideNext == WideReceive \/ WideReply \/ TimerFires

WideSpec == WideInit /\ [][WideNext]_vars

\* the popup sends at most MaxFairCommands commands
FairReceive == issued < MaxFairCommands /\ Receive

FairNext == FairReceive \/ Reply \/ TimerFires

\* Every fetch settles: the service answers, or the network stack gives up.
FairSpec == Init /\ [][FairNext]_vars /\ WF_vars(Reply)

\* ------------------------------------------------------------------------
\* Vocabulary of the properties
\* ------------------------------------------------------------------------

\* the markup of the live document
DocumentHTML(h) == Serialize(h, h[Body].kids)

\* what a snapshot records, without the element references
SnapshotContent(entries) ==
    [n \in 1..Len(entries) |->
        [index |-> entries[n].index, originalText |-> entries[n].originalText,
         originalHTML |-> entries[n].originalHTML]]

\* no async function is suspended at an await
NothingInFlight == \A c \in Commands : tasks[c].pc # "await"

\* the commands whose rewritePageContent is suspended in processTextChunks
AwaitingRewrite == {c \in Commands : tasks[c].pc = "await" /\ tasks[c].action = "rewritePage"}

\* the last command to finish was a rewritePage that reported success
RewriteDone == lastDone.action = "rewritePage" /\ lastDone.result.success

\* s is made of whitespace only
IsBlank(s) == \A i \in 1..Len(s) : IsSpace(s[i])

\* outcomes of a call that give no usable text: a failed call, a non-success
\* status, a body without content, blank content
FailedOutcomes == {o \in ApiOutcomes : o.kind # "ok" \/ IsBlank(o.content)}

\* first position of part i in parts joined by single characters
OffsetOf(parts, i) == LET RECURSIVE Sum(_)
                          Sum(k) == IF k = 0 THEN 0 ELSE Sum(k - 1) + Len(parts[k]) + 1
                      IN  Sum(i - 1) + 1

\* whole is exactly parts[1] " " parts[2] " " ... parts[n], in this order
IsSpaceJoined(whole, parts) ==
    LET n == Len(parts)
    IN  /\ Len(whole) = IF n = 0 THEN 0 ELSE OffsetOf(parts, n) + Len(parts[n]) - 1
        /\ \A i \in 1..n :
              /\ SubSeq(whole, OffsetOf(parts, i), OffsetOf(parts, i) + Len(parts[i]) - 1)
                    = parts[i]
              /\ i < n => whole[OffsetOf(parts, i) + Len(parts[i])] = " "

\* the values processTextChunks may hold for a chunk: the chunk itself, or the
\* trimmed text of an answer when the chunk was sent
ResultsFor(chunk) ==
    {chunk} \cup (IF Len(chunk) > ChunkMinLen
                  THEN {Trim(o.content) : o \in ApiOutcomes \ FailedOutcomes}
                  ELSE {})

\* the callback of replacePageContentWithRewrittenText runs in this step
ReplaceCallbackRuns ==
    /\ timers # <<>>
    /\ Head(timers).kind = "replace"
    /\ TimerFires

\* the positions of the entries whose original text is longer than 20
\* characters, in capture order
EligibleEntries(entries) ==
    SelectSeq([n \in 1..Len(entries) |-> n],
              LAMBDA n : Len(entries[n].originalText) > ApplyMinLen)

\* the document when the forEach of the callback has dealt with entry n
AfterEntry(h, entries, n, paragraphs) ==
    ApplyParagraphs(h, SubSeq(entries, 1, n), 1, paragraphs, 0)

\* the text of the element of entry n when the forEach has dealt with it
TextAfterOwnTurn(h, entries, n, paragraphs) ==
    TextContent(AfterEntry(h, entries, n, paragraphs), entries[n].element)

\* the elements of a sequence, as a set
Range(seq) == {seq[i] : i \in 1..Len(seq)}

\* the elements of the document that storeOriginalTexts selects and whose
\* trimmed text is longer than 10 characters
ElementsToCapture(h) ==
    {e \in Range(DocumentElements(h)) :
        IsTextElement(h[e].kind) /\ Len(Trim(TextContent(h, e))) > CaptureMinLen}

\* the positions of the entries whose original text is at most 20 characters long
ShortEntries(entries) ==
    {n \in 1..Len(entries) : Len(entries[n].originalText) <= ApplyMinLen}

\* entry n lies inside the element of an entry that this run of the callback
\* patches as complex markup
InsidePatchedComplex(h, entries, n, paragraphs) ==
    LET eligible == EligibleEntries(entries)
    IN  \E k \in 1..Len(eligible) \cap 1..Len(paragraphs) :
            /\ HasComplexHTML(entries[eligible[k]].originalHTML)
            /\ entries[n].element
                  \in Range(ElementsOfKids(h, h[entries[eligible[k]].element].kids))

\* C15, capture: a rewritePage that captures records exactly the selected
\* elements whose trimmed text is longer than 10 characters
CapturesAboveTen ==
    \A c \in Commands :
        (issued' # issued /\ ~isRewritten /\ RewritePage(c))
            => {originalTexts'[n].element : n \in 1..Len(originalTexts')}
                   = ElementsToCapture(heap)

\* C15, apply: the callback does what it would do on the eligible entries
\* alone: an entry of at most 20 characters is given no text and consumes no
\* paragraph
PatchesAboveTwenty ==
    ReplaceCallbackRuns =>
        heap' = ApplyParagraphs(heap,
                    SelectSeq(originalTexts, LAMBDA item : Len(item.originalText) > ApplyMinLen),
                    1, Head(timers).paragraphs, 0)

\* C15, reset: a reset restores the entries of at most 20 characters too
ResetRestoresShortEntries ==
    \A c \in Commands :
        (issued' # issued /\ isRewritten /\ ResetPage(c))
            => \A n \in ShortEntries(originalTexts) :
                   InnerHTML(heap', originalTexts[n].element) = originalTexts[n].originalHTML

\* the sentences a chunk holds, without the whitespace around them
SentencesOf(chunk) ==
    LET parts == SplitSentences(chunk)
    IN  [j \in 1..Len(parts) |-> Trim(parts[j])]

\* chunks hold the n sentences in batches of 4: ceil(n/4) chunks, chunk i
\* holding sentences 4(i-1)+1 .. 4i, the last one those that remain
IsBatchedByFour(sentences, chunks) ==
    LET n    == Len(sentences)
        q    == (n + 3) \div 4
        held(i) == IF i < q THEN 4 ELSE n - 4 * (q - 1)
    IN  /\ Len(chunks) = q
        /\ \A i \in 1..q :
              SentencesOf(chunks[i])
                  = [j \in 1..held(i) |-> Trim(sentences[4 * (i - 1) + j])]

\* the selectors, by priority, whose first matching element holds more than
\* 100 characters of whitespace-normalised text
QualifyingSelectors(h) ==
    {n \in 1..Len(ContentSelectors) :
        LET element == QuerySelector(h, ContentSelectors[n])
        IN  /\ element # 0
            /\ Len(Trim(CollapseSpaces(TextContent(h, element)))) > MainMinLen}

\* what the extractor is to return: the cleaned text of the element of the
\* first qualifying selector, or of the body without its navigation elements
ExpectedContent(h) ==
    IF QualifyingSelectors(h) = {}
    THEN CleanTextContent(TextWithoutNav(h, h[Body].kids))
    ELSE LET n == CHOOSE m \in QualifyingSelectors(h) :
                      \A k \in QualifyingSelectors(h) : m <= k
         IN  CleanTextContent(TextContent(h, QuerySelector(h, ContentSelectors[n])))

\* ------------------------------------------------------------------------
\* C1
\* ------------------------------------------------------------------------

\* C1 (as claimed): once a resetPage was the last command handled, after a
\* rewrite, and neither a deferred callback nor a call is pending, every
\* captured element's markup equals the markup recorded for it, and
\* isRewritten is false.
C1_ResetRestoresPage ==
    (lastDone.action = "resetPage" /\ lastDone.cmd = issued
        /\ timers = <<>> /\ NothingInFlight)
    => /\ ~isRewritten
       /\ \A n \in 1..Len(originalTexts) :
             InnerHTML(heap, originalTexts[n].element) = originalTexts[n].originalHTML

\* ------------------------------------------------------------------------
\* C2
\* ------------------------------------------------------------------------

\* C2 (as claimed): whenever storeOriginalTexts has run, the page held no text
\* of an earlier rewrite, so the snapshot records what the loaded document
\* held: its content is the capture of the document as loaded.
C2_SnapshotIsOriginal ==
    originalTexts # <<>>
    => SnapshotContent(originalTexts) = SnapshotContent(StoreOriginalTexts(page))

\* ------------------------------------------------------------------------
\* C3
\* ------------------------------------------------------------------------

\* C3: when the call for a chunk fails, returns a non-success status or returns
\* blank text, the value processed for that chunk is the chunk's own text, and
\* if the rewrite finishes in that step it reports success: true.
C3_FallbackToChunk ==
    [][ \A c \in Commands, o \in FailedOutcomes :
            RewriteReply(c, o) =>
                LET i == PendingChunk(tasks[c])
                IN  IF tasks'[c].pc = "await"
                    THEN /\ tasks'[c].processedChunks[i] = tasks[c].chunks[i]
                         /\ responded'[c] = 0
                    ELSE /\ lastDone'.cmd = c
                         /\ lastDone'.processedChunks[i] = tasks[c].chunks[i]
                         /\ lastDone'.result.success = TRUE
                         /\ DOMAIN lastDone'.result
                                = {"success", "originalLength", "newLength"}
                         /\ responded'[c] = 1 ]_vars

\* a rewrite has finished with success although every substantial chunk fell
\* back to its own text
C3_Witness ==
    /\ RewriteDone
    /\ lastDone.processedChunks = lastDone.chunks
    /\ \E i \in 1..Len(lastDone.chunks) : Len(lastDone.chunks[i]) > ChunkMinLen

\* ------------------------------------------------------------------------
\* C4
\* ------------------------------------------------------------------------

\* C4: the processed results stand at the index of their chunk, and the
\* rewritten content is these results joined with single spaces in index order.
C4_ChunkOrder ==
    /\ \A c \in AwaitingRewrite :
          \A i \in 1..Len(tasks[c].processedChunks) :
             tasks[c].processedChunks[i] \in ResultsFor(tasks[c].chunks[i])
    /\ RewriteDone =>
          /\ Len(lastDone.processedChunks) = Len(lastDone.chunks)
          /\ \A i \in 1..Len(lastDone.chunks) :
                lastDone.processedChunks[i] \in ResultsFor(lastDone.chunks[i])
          /\ IsSpaceJoined(lastDone.rewrittenContent, lastDone.processedChunks)

\* a rewrite of two substantial chunks has finished: the first fell back to its
\* own text, the second was rewritten
C4_Witness ==
    /\ RewriteDone
    /\ Len(lastDone.chunks) = 2
    /\ Len(lastDone.chunks[1]) > ChunkMinLen /\ Len(lastDone.chunks[2]) > ChunkMinLen
    /\ lastDone.processedChunks[1] = lastDone.chunks[1]
    /\ lastDone.processedChunks[2] = Trim(OutTwo)

\* ------------------------------------------------------------------------
\* C5
\* ------------------------------------------------------------------------

\* C5: a chunk shorter than 50 characters is never the chunk of an outstanding
\* call, and it stands unchanged at its position in the processed output.
C5_ShortChunksPassThrough ==
    /\ \A c \in AwaitingRewrite :
          /\ ~(Len(tasks[c].chunks[PendingChunk(tasks[c])]) < ChunkMinLen)
          /\ \A i \in 1..Len(tasks[c].processedChunks) :
                Len(tasks[c].chunks[i]) < ChunkMinLen
                => tasks[c].processedChunks[i] = tasks[c].chunks[i]
    /\ RewriteDone =>
          \A i \in 1..Len(lastDone.chunks) :
             Len(lastDone.chunks[i]) < ChunkMinLen
             => /\ lastDone.processedChunks[i] = lastDone.chunks[i]
                /\ SubSeq(lastDone.rewrittenContent,
                          OffsetOf(lastDone.processedChunks, i),
                          OffsetOf(lastDone.processedChunks, i)
                              + Len(lastDone.chunks[i]) - 1) = lastDone.chunks[i]

\* a rewrite has finished whose second chunk is shorter than 50 characters and
\* whose first chunk was rewritten
C5_Witness ==
    /\ RewriteDone
    /\ Len(lastDone.chunks) = 2
    /\ Len(lastDone.chunks[2]) < ChunkMinLen
    /\ lastDone.processedChunks[1] = Trim(OutTwo)

\* ------------------------------------------------------------------------
\* C6
\* ------------------------------------------------------------------------

\* C6: when the call of summarizePage fails or returns a non-success status,
\* the command returns { success: false, error } and triggers no download; a
\* download is triggered only by a step in which a summary was obtained.
C6_SummaryFailureNoDownload ==
    [][ /\ \A c \in Commands, o \in {x \in ApiOutcomes : x.kind # "ok"} :
              SummaryReply(c, o) =>
                  /\ lastDone'.cmd = c
                  /\ lastDone'.result.success = FALSE
                  /\ DOMAIN lastDone'.result = {"success", "error"}
                  /\ responded'[c] = 1
                  /\ lastDownload' = lastDownload
        /\ lastDownload' # lastDownload =>
              \E c \in Commands, o \in {x \in ApiOutcomes : x.kind = "ok"} :
                  /\ SummaryReply(c, o)
                  /\ lastDownload' = [cmd |-> c, summary |-> Trim(o.content)] ]_vars

\* a summarizePage has returned the error of a failed call, and nothing was
\* ever downloaded
C6_Witness ==
    /\ lastDone.action = "summarizePage"
    /\ ~lastDone.result.success
    /\ lastDone.result.error = <<"Failed to create summary: ", "Failed to fetch">>
    /\ lastDownload = NoDownload

\* ------------------------------------------------------------------------
\* C7
\* ------------------------------------------------------------------------

\* C7 (as claimed): when the call of summarizePage succeeds with blank
\* content, the command returns a failure result and triggers no download.
C7_BlankSummaryIsFailure ==
    [][ \A c \in Commands, o \in {x \in ApiOutcomes : x.kind = "ok" /\ IsBlank(x.content)} :
            SummaryReply(c, o) =>
                /\ lastDone'.result.success = FALSE
                /\ lastDownload' = lastDownload ]_vars

\* ------------------------------------------------------------------------
\* C8
\* ------------------------------------------------------------------------

\* C8: a resetPage handled while isRewritten is false changes no element, not
\* the snapshot and not the flag, sets no timer, and responds { success: true }.
C8_ResetWithoutRewriteIsNoOp ==
    [][ \A c \in Commands :
            (ResetPage(c) /\ ~isRewritten) =>
                /\ heap' = heap
                /\ originalTexts' = originalTexts
                /\ isRewritten' = isRewritten
                /\ timers' = timers
                /\ bodyOpacity' = bodyOpacity
                /\ lastDone'.cmd = c
                /\ lastDone'.result = [success |-> TRUE]
                /\ responded'[c] = 1 ]_vars

\* a resetPage was handled as the second command while the rewrite received
\* first was still awaiting its call, a snapshot being there already
C8_Witness ==
    /\ issued = 2
    /\ lastDone.cmd = 2 /\ lastDone.action = "resetPage"
    /\ tasks[1].pc = "await" /\ tasks[1].action = "rewritePage"
    /\ originalTexts # <<>>
    /\ ~isRewritten /\ timers = <<>>
    /\ heap = page

\* ------------------------------------------------------------------------
\* C9
\* ------------------------------------------------------------------------

\* C9: sendResponse is called at most once per command, exactly when its
\* function has returned, and every command received is eventually answered:
\* again and again the listener reaches a state where each command received
\* so far has its one response.
C9_EveryCommandAnswered ==
    /\ [](\A c \in Commands : /\ responded[c] <= 1
                              /\ (tasks[c].pc = "done" <=> responded[c] = 1))
    /\ []<>(\A c \in Commands : issued >= c => responded[c] = 1)

\* a command was answered with the error of a failed call while an earlier
\* command was answered too
C9_Witness ==
    /\ lastDone.cmd > 1
    /\ \A c \in 1..lastDone.cmd : responded[c] = 1
    /\ ~lastDone.result.success
    /\ Len(lastDone.result.error) = 2

\* ------------------------------------------------------------------------
\* C10
\* ------------------------------------------------------------------------

\* C10: when the extracted text is empty or blank, rewritePage and
\* summarizePage return the no-content failure, start no call, change no
\* element, set no timer, trigger no download and leave isRewritten as it is.
C10_NoContent ==
    [][ \A c \in Commands :
            (issued' # issued /\ IsBlank(ExtractMainContent(heap))
                /\ (RewritePage(c) \/ SummarizePage(c))) =>
                /\ lastDone'.cmd = c
                /\ lastDone'.result.success = FALSE
                /\ lastDone'.result.error = NoContentMessage
                /\ responded'[c] = 1
                /\ tasks'[c].pc = "done"
                /\ heap' = heap
                /\ timers' = timers
                /\ lastDownload' = lastDownload
                /\ isRewritten' = isRewritten ]_vars

\* a rewritePage has returned the no-content failure after capturing a snapshot
C10_Witness ==
    /\ lastDone.action = "rewritePage"
    /\ ~lastDone.result.success
    /\ lastDone.result.error = NoContentMessage
    /\ originalTexts # <<>>
    /\ ~isRewritten /\ timers = <<>> /\ heap = page

\* ------------------------------------------------------------------------
\* C11
\* ------------------------------------------------------------------------

\* C11: a rewritePage handled while isRewritten is true leaves the snapshot
\* (entries, original text, original markup) as it was, and so does every
\* other step taken while the flag is true: the rewrites of one session all
\* patch from, and the reset restores from, the capture the session began with.
C11_CaptureReused ==
    [][ /\ \A c \in Commands :
              (issued' # issued /\ isRewritten /\ RewritePage(c))
                  => originalTexts' = originalTexts
        /\ isRewritten => originalTexts' = originalTexts ]_vars

\* a rewritePage received after the first rewrite was patched into the page
\* (its text is the rewritten text) awaits its call, and the snapshot still is
\* the capture of the document as loaded
C11_Witness ==
    /\ isRewritten
    /\ issued > 1
    /\ tasks[issued].action = "rewritePage" /\ tasks[issued].pc = "await"
    /\ tasks[issued].textContent # ExtractMainContent(page)
    /\ originalTexts # <<>>
    /\ SnapshotContent(originalTexts) = SnapshotContent(StoreOriginalTexts(page))

\* ------------------------------------------------------------------------
\* C12
\* ------------------------------------------------------------------------

\* C12 (as claimed): whenever the success response of a rewritePage has been
\* delivered, its paragraphs have already been applied to the captured
\* elements: the callback that applies them is no longer pending.
C12_PatchedBeforeReport ==
    RewriteDone =>
        \A i \in 1..Len(timers) :
            ~(/\ timers[i].kind = "replace"
              /\ timers[i].paragraphs = SplitParagraphs(lastDone.rewrittenContent, 1))

\* ------------------------------------------------------------------------
\* C13
\* ------------------------------------------------------------------------

\* C13 (as claimed): when the callback runs on a snapshot with more eligible
\* entries than there are paragraphs, the k-th eligible entry is given the
\* k-th paragraph while paragraphs last, and every further eligible entry is
\* given the last paragraph.
C13_LastParagraphReused ==
    [][ ReplaceCallbackRuns =>
            LET paragraphs == Head(timers).paragraphs
                eligible   == EligibleEntries(originalTexts)
            IN  Len(eligible) > Len(paragraphs) =>
                    \A k \in 1..Len(eligible) :
                        TextAfterOwnTurn(heap, originalTexts, eligible[k], paragraphs)
                            = paragraphs[IF k <= Len(paragraphs) THEN k ELSE Len(paragraphs)]
      ]_vars

\* ------------------------------------------------------------------------
\* C14
\* ------------------------------------------------------------------------

\* C14: when the callback runs, the k-th eligible entry of the snapshot is
\* given the k-th paragraph, for every k up to the smaller of the two counts;
\* when there are fewer eligible entries than paragraphs, the callback still
\* runs to its end and no element comes to hold one of the surplus paragraphs.
C14_AssignmentInCaptureOrder ==
    [][ ReplaceCallbackRuns =>
            LET paragraphs == Head(timers).paragraphs
                eligible   == EligibleEntries(originalTexts)
                used       == {paragraphs[k] : k \in 1..Len(eligible) \cap 1..Len(paragraphs)}
            IN  /\ \A k \in 1..Len(eligible) \cap 1..Len(paragraphs) :
                       TextAfterOwnTurn(heap, originalTexts, eligible[k], paragraphs)
                           = paragraphs[k]
                /\ Len(eligible) < Len(paragraphs) =>
                       /\ bodyOpacity' = "1"
                       /\ DOMAIN heap' = DOMAIN heap
                       /\ \A j \in (Len(eligible) + 1)..Len(paragraphs), e \in DOMAIN heap' :
                              (paragraphs[j] \notin used /\ TextContent(heap', e) = paragraphs[j])
                                  => TextContent(heap, e) = paragraphs[j]
      ]_vars

\* the callback of the last rewrite has run on a snapshot with eligible
\* entries, but fewer than there were paragraphs: the first eligible entry
\* holds the first paragraph
C14_Witness ==
    LET paragraphs == SplitParagraphs(lastDone.rewrittenContent, 1)
        eligible   == EligibleEntries(originalTexts)
    IN  /\ RewriteDone /\ lastDone.cmd = issued
        /\ timers = <<>>
        /\ Len(eligible) > 0
        /\ Len(eligible) < Len(paragraphs)
        /\ TextContent(heap, originalTexts[eligible[1]].element) = paragraphs[1]
        /\ heap # page

\* ------------------------------------------------------------------------
\* C15
\* ------------------------------------------------------------------------

\* C15 (as claimed): an element is captured exactly when its trimmed text is
\* longer than 10 characters; a captured entry is given rewritten text only
\* when its original text is longer than 20 characters; an entry of at most 20
\* characters is never modified by the callback, consumes no paragraph, and is
\* restored by reset.
C15_ShortEntryNeverModified ==
    [][ /\ CapturesAboveTen
        /\ PatchesAboveTwenty
        /\ ResetRestoresShortEntries
        /\ ReplaceCallbackRuns =>
              \A n \in ShortEntries(originalTexts) :
                  InnerHTML(heap', originalTexts[n].element)
                      = InnerHTML(heap, originalTexts[n].element) ]_vars

\* C15 (amended): as claimed, except that the markup of an entry of at most 20
\* characters is left as it is by the callback unless the entry lies inside an
\* element that the callback patches as complex markup (whose text leaves are
\* all removed but the first).
C15_TwoThresholds ==
    [][ /\ CapturesAboveTen
        /\ PatchesAboveTwenty
        /\ ResetRestoresShortEntries
        /\ ReplaceCallbackRuns =>
              \A n \in ShortEntries(originalTexts) :
                  ~InsidePatchedComplex(heap, originalTexts, n, Head(timers).paragraphs)
                      => InnerHTML(heap', originalTexts[n].element)
                             = InnerHTML(heap, originalTexts[n].element) ]_vars

\* the callback has run on the page of paragraphs around the thresholds: the
\* paragraph of 10 trimmed characters is not in the snapshot, those of 11 and
\* of 20 characters are and hold their text, the one of 21 characters holds
\* the first paragraph
C15_Witness ==
    /\ page = PageThresholds
    /\ RewriteDone /\ lastDone.cmd = issued /\ timers = <<>>
    /\ [n \in 1..Len(originalTexts) |-> originalTexts[n].element] = <<3, 4, 5, 6>>
    /\ TextContent(heap, 3) = TextContent(page, 3)
    /\ TextContent(heap, 4) = TextContent(page, 4)
    /\ TextContent(heap, 5) = SplitParagraphs(lastDone.rewrittenContent, 1)[1]
    /\ TextContent(heap, 5) # TextContent(page, 5)

\* ------------------------------------------------------------------------
\* C16
\* ------------------------------------------------------------------------

C17_ExtractorFallThrough ==
    [][ \A c \in Commands :
            (issued' # issued /\ (RewritePage(c) \/ SummarizePage(c))) =>
                IF tasks'[c].pc = "await"
                THEN tasks'[c].textContent = ExpectedContent(heap)
                ELSE IF lastDone'.result.success
                THEN lastDone'.result.originalLength = Len(ExpectedContent(heap))
                ELSE IsBlank(ExpectedContent(heap)) ]_vars

\* on the page whose main holds exactly 100 normalised characters and whose
\* article holds 101, a command awaits its call with the text of the article
C17_Witness ==
    \E c \in Commands :
        /\ page = PageOfContainers("edge", "long", "long")
        /\ heap = page
        /\ tasks[c].pc = "await"
        /\ QuerySelector(heap, "main") = 8
        /\ tasks[c].textContent = CleanTextContent(TextContent(heap, 6))

\* ------------------------------------------------------------------------
\* C18
\* ------------------------------------------------------------------------

\* C18: a rewritePage has made one request for each substantial chunk up to
\* the one it awaits and none for the others; the answer to a request,
\* failed or not, is followed by the request for a later chunk or by the end
\* of the rewrite, never by a request for the same chunk; a summarizePage
\* with content makes one request, and its answer ends the command.
C18_OneRequestPerChunk ==
    /\ [](\A c \in Commands :
              tasks[c].pc = "await" =>
                  IF tasks[c].action = "rewritePage"
                  THEN /\ PendingChunk(tasks[c]) <= Len(tasks[c].chunks)
                       /\ tasks[c].requests =
                              Cardinality({i \in 1..PendingChunk(tasks[c]) :
                                              Len(tasks[c].chunks[i]) > ChunkMinLen})
                  ELSE tasks[c].requests = 1)
    /\ [][ \A c \in Commands :
              /\ (tasks[c].pc = "await" /\ tasks[c].action = "rewritePage"
                      /\ tasks'[c] # tasks[c] /\ tasks'[c].pc = "await")
                    => /\ tasks'[c].chunks = tasks[c].chunks
                       /\ PendingChunk(tasks'[c]) > PendingChunk(tasks[c])
                       /\ tasks'[c].requests = tasks[c].requests + 1
              /\ (tasks[c].pc = "await" /\ tasks[c].action = "summarizePage"
                      /\ tasks'[c] # tasks[c])
                    => tasks'[c].pc = "done"
              /\ (tasks[c].pc = "idle" /\ tasks'[c].pc = "await")
                    => tasks'[c].requests = 1 ]_vars

\* a rewritePage awaits the call for its second substantial chunk, the call
\* for the first having failed: two requests made, none repeated
C18_Witness ==
    \E c \in Commands :
        /\ tasks[c].action = "rewritePage" /\ tasks[c].pc = "await"
        /\ PendingChunk(tasks[c]) = 2
        /\ tasks[c].processedChunks[1] = tasks[c].chunks[1]
        /\ Len(tasks[c].chunks[1]) > ChunkMinLen
        /\ tasks[c].requests = 2

\* ------------------------------------------------------------------------
\* C19
\* ------------------------------------------------------------------------

\* C19 (as claimed): when the callback has run, the text content of every
\* element it patched is exactly the paragraph it was patched with, whether
\* its markup was classified complex or simple, and also when captured
\* elements are nested inside one another.
C19_PatchedTextIsParagraph ==
    [][ ReplaceCallbackRuns =>
            LET paragraphs == Head(timers).paragraphs
                eligible   == EligibleEntries(originalTexts)
            IN  \A k \in 1..Len(eligible) \cap 1..Len(paragraphs) :
                    TextContent(heap', originalTexts[eligible[k]].element) = paragraphs[k]
      ]_vars

\* ------------------------------------------------------------------------
\* C20
\* ------------------------------------------------------------------------

\* C20: every step of a summarizePage (the handling of the command, and the
\* rest of it when its call has ended, well or not) leaves isRewritten, the
\* snapshot, and the markup and text of every captured element as they were,
\* whatever rewritePage and resetPage have done or have under way.
C20_SummarizeLeavesSession ==
    [][ \A c \in Commands :
            (\/ (issued' # issued /\ SummarizePage(c))
             \/ \E o \in ApiOutcomes : SummaryReply(c, o))
            => /\ isRewritten' = isRewritten
               /\ originalTexts' = originalTexts
               /\ \A n \in 1..Len(originalTexts) :
                      /\ InnerHTML(heap', originalTexts[n].element)
                            = InnerHTML(heap, originalTexts[n].element)
                      /\ TextContent(heap', originalTexts[n].element)
                            = TextContent(heap, originalTexts[n].element) ]_vars

\* a summarizePage has ended with a download while the page is rewritten: the
\* flag is set, the snapshot holds the capture, the elements hold rewritten text
C20_Witness ==
    /\ lastDone.action = "summarizePage" /\ lastDone.result.success
    /\ lastDownload.cmd = lastDone.cmd
    /\ isRewritten
    /\ originalTexts # <<>>
    /\ timers = <<>>
    /\ heap # page
    /\ \E n \in 1..Len(originalTexts) :
           TextContent(heap, originalTexts[n].element) # originalTexts[n].originalText

=============================================================================
